---- MODULE Spec2Model ----
(***************************************************************************)
(* A model of the wingman-server request handlers (src/app.py):            *)
(*   /analyze        analyze()        field check, one upstream call,     *)
(*                                    fence stripping, JSON parsing        *)
(*   /extract/text   extract_text()   dispatch on the filename suffix,    *)
(*                                    PDF text layer with OCR fallback     *)
(*   /text/to/docx   text_to_docx()   paragraph splitting                  *)
(*                                                                         *)
(* Strings are sequences of symbols.  A symbol is one character ("j",      *)
(* " ", "\n", ..., and BT for the backtick) or, inside a JSON document,    *)
(* one JSON lexeme (a string literal such as "\"decision\"", a number      *)
(* such as "60").                                                          *)
(* The handlers keep no state between requests: the variables hold the     *)
(* request being served, what it has called so far, and its response.      *)
(***************************************************************************)
EXTENDS Integers, Sequences, FiniteSets, TLC

VARIABLES
    pc,          \* "idle", "upstream" (analyze blocked in requests.post), "done"
    route,       \* the route of the request being served
    data,        \* /analyze: the request's JSON fields
    api_calls,   \* /analyze: number of requests.post calls made for this request
    res,         \* /analyze: the upstream response received
    upload,      \* /extract/text: the uploaded file's name and what the libraries yield for it
    invoked,     \* /extract/text: the parsers and OCR adapters called for this request
    docx_data,   \* /text/to/docx: the request's JSON body
    response     \* the handler's HTTP response

vars == <<pc, route, data, api_calls, res, upload, invoked, docx_data, response>>

----------------------------------------------------------------------------
(* Bounds of the model *)

\* longest arbitrary symbol string tried as the upstream's text
MaxGarbageLen == 2
\* most pages of an uploaded PDF
MaxPages == 2
\* longest text layer of one PDF page
MaxPageLen == 1
\* longest text posted to /text/to/docx
MaxTextLen == 6

----------------------------------------------------------------------------
(* Python strings *)

\* the characters str.strip() removes that occur in the model
Whitespace == {" ", "\n", "\r", "\t"}

RECURSIVE lstrip(_)
lstrip(s) ==
    IF s # <<>> /\ Head(s) \in Whitespace THEN lstrip(Tail(s)) ELSE s

RECURSIVE rstrip(_)
rstrip(s) ==
    IF s # <<>> /\ s[Len(s)] \in Whitespace
    THEN rstrip(SubSeq(s, 1, Len(s) - 1))
    ELSE s

\* str.strip()
strip(s) == rstrip(lstrip(s))

\* str.startswith(prefix)
startswith(s, prefix) ==
    Len(s) >= Len(prefix) /\ SubSeq(s, 1, Len(prefix)) = prefix

\* str.endswith(suffix)
endswith(s, suffix) ==
    Len(s) >= Len(suffix) /\ SubSeq(s, Len(s) - Len(suffix) + 1, Len(s)) = suffix

\* the upper-case letters that occur in the model, with their lower case
UpperToLower ==
    [c \in {"P", "D", "F", "O", "C", "X", "T", "N", "G", "J", "E", "S"} |->
        CASE c = "P" -> "p" [] c = "D" -> "d" [] c = "F" -> "f" [] c = "O" -> "o"
          [] c = "C" -> "c" [] c = "X" -> "x" [] c = "T" -> "t" [] c = "N" -> "n"
          [] c = "G" -> "g" [] c = "J" -> "j" [] c = "E" -> "e" [] c = "S" -> "s"]

lower_char(c) == IF c \in DOMAIN UpperToLower THEN UpperToLower[c] ELSE c

\* str.lower()
lower(s) == [i \in 1..Len(s) |-> lower_char(s[i])]

\* all strings over alphabet of length at most n
StringsUpTo(alphabet, n) == UNION {[1..k -> alphabet] : k \in 0..n}

\* the backtick character
BT == "BACKTICK"

\* the three backticks of a fenced code block
Fence == <<BT, BT, BT>>

----------------------------------------------------------------------------
(* json.loads on a string of symbols *)

StringLexemes ==
    {"\"decision\"", "\"score\"", "\"coverLetter\"", "\"Yes\"", "\"No\"",
     "\"\"", "\"Dear team\"", "\"error\"", "\"quota\""}

NumberLexemes == {"59", "60"}

ScalarLexemes == StringLexemes \cup NumberLexemes \cup {"null"}

\* the whitespace JSON allows between lexemes
JsonWhitespace == {" ", "\n", "\r", "\t"}

RECURSIVE skip_ws(_)
skip_ws(s) ==
    IF s # <<>> /\ Head(s) \in JsonWhitespace THEN skip_ws(Tail(s)) ELSE s

ParseFail == [ok |-> FALSE, val |-> <<>>, rest |-> <<>>]

\* The decoder: each operator reads one construct from the front of s and
\* yields the value read (the lexemes of the document, whitespace dropped)
\* and the rest of s.
RECURSIVE parse_value(_), parse_elements(_), parse_members(_)
parse_value(s) ==
    LET t == skip_ws(s) IN
    IF t = <<>> THEN ParseFail
    ELSE IF Head(t) \in ScalarLexemes
        THEN [ok |-> TRUE, val |-> <<Head(t)>>, rest |-> Tail(t)]
    ELSE IF Head(t) = "["
        THEN LET u == skip_ws(Tail(t)) IN
             IF u # <<>> /\ Head(u) = "]"
             THEN [ok |-> TRUE, val |-> <<"[", "]">>, rest |-> Tail(u)]
             ELSE LET r == parse_elements(u) IN
                  IF r.ok THEN [r EXCEPT !.val = <<"[">> \o r.val] ELSE ParseFail
    ELSE IF Head(t) = "{"
        THEN LET u == skip_ws(Tail(t)) IN
             IF u # <<>> /\ Head(u) = "}"
             THEN [ok |-> TRUE, val |-> <<"{", "}">>, rest |-> Tail(u)]
             ELSE LET r == parse_members(u) IN
                  IF r.ok THEN [r EXCEPT !.val = <<"{">> \o r.val] ELSE ParseFail
    ELSE ParseFail

\* value ("," value)* "]"
parse_elements(s) ==
    LET v == parse_value(s) IN
    IF ~v.ok THEN ParseFail
    ELSE LET t == skip_ws(v.rest) IN
         IF t = <<>> THEN ParseFail
         ELSE IF Head(t) = "]"
             THEN [ok |-> TRUE, val |-> v.val \o <<"]">>, rest |-> Tail(t)]
         ELSE IF Head(t) = ","
             THEN LET r == parse_elements(Tail(t)) IN
                  IF r.ok THEN [r EXCEPT !.val = v.val \o <<",">> \o r.val]
                  ELSE ParseFail
         ELSE ParseFail

\* string ":" value ("," string ":" value)* "}"
parse_members(s) ==
    LET k == skip_ws(s) IN
    IF k = <<>> \/ Head(k) \notin StringLexemes THEN ParseFail
    ELSE LET c == skip_ws(Tail(k)) IN
         IF c = <<>> \/ Head(c) # ":" THEN ParseFail
         ELSE LET v == parse_value(Tail(c)) IN
              IF ~v.ok THEN ParseFail
              ELSE LET t == skip_ws(v.rest)
                       sofar == <<Head(k), ":">> \o v.val
                   IN
                   IF t = <<>> THEN ParseFail
                   ELSE IF Head(t) = "}"
                       THEN [ok |-> TRUE, val |-> sofar \o <<"}">>, rest |-> Tail(t)]
                   ELSE IF Head(t) = ","
                       THEN LET r == parse_members(Tail(t)) IN
                            IF r.ok THEN [r EXCEPT !.val = sofar \o <<",">> \o r.val]
                            ELSE ParseFail
                   ELSE ParseFail

\* json.loads(s): ok is FALSE where json.loads raises JSONDecodeError
json_loads(s) ==
    LET r == parse_value(s) IN
    IF r.ok /\ skip_ws(r.rest) = <<>>
    THEN [ok |-> TRUE, val |-> r.val]
    ELSE [ok |-> FALSE, val |-> <<>>]

----------------------------------------------------------------------------
(* HTTP responses *)

Reply(status, error) ==
    [status |-> status, error |-> error, upstream |-> <<>>, raw |-> <<>>,
     parsed |-> <<>>, text |-> <<>>, paragraphs |-> <<>>]

\* no response sent yet
NoResponse == Reply(0, "")

\* what Flask answers when a handler lets an exception escape
InternalServerError == Reply(500, "Internal Server Error")

----------------------------------------------------------------------------
(* /analyze *)

\* the values a field of the request's JSON object can have; "absent" is a
\* key the object lacks (data.get yields None)
FieldValues ==
    {[kind |-> "absent", val |-> <<>>], [kind |-> "null", val |-> <<>>],
     [kind |-> "str", val |-> <<>>], [kind |-> "str", val |-> <<"x">>],
     [kind |-> "num", val |-> <<"0">>]}

AnalyzeData ==
    [jobTitle : FieldValues, jobDescription : FieldValues, extractedText : FieldValues]

NoData == [jobTitle |-> [kind |-> "absent", val |-> <<>>],
           jobDescription |-> [kind |-> "absent", val |-> <<>>],
           extractedText |-> [kind |-> "absent", val |-> <<>>]]

\* Python truthiness of a JSON value
truthy(v) ==
    CASE v.kind = "str" -> v.val # <<>>
      [] v.kind = "num" -> v.val # <<"0">>
      [] OTHER -> FALSE

\* any(...) in the place of all(...)
any_field(d) ==
    truthy(d.jobTitle) \/ truthy(d.jobDescription) \/ truthy(d.extractedText)

\* all([job_title, job_description, extracted_text])
all_fields(d) ==
    truthy(d.jobTitle) /\ truthy(d.jobDescription) /\ truthy(d.extractedText)

\* the substitution without re.IGNORECASE
re_sub_fence_json_case_sensitive(s) ==
    IF startswith(s, Fence \o <<"j", "s", "o", "n">>) THEN SubSeq(s, 8, Len(s)) ELSE s

\* re.sub(r"^```json", "", s, flags=re.IGNORECASE)
re_sub_fence_json(s) ==
    IF Len(s) >= 7 /\ lower(SubSeq(s, 1, 7)) = Fence \o <<"j", "s", "o", "n">>
    THEN SubSeq(s, 8, Len(s))
    ELSE s

\* re.sub(r"^```", "", s)
re_sub_fence_open(s) ==
    IF startswith(s, Fence) THEN SubSeq(s, 4, Len(s)) ELSE s

\* re.sub(r"```$", "", s): $ matches at the end of the string and before a
\* newline that ends the string
re_sub_fence_close(s) ==
    IF endswith(s, Fence) THEN SubSeq(s, 1, Len(s) - 3)
    ELSE IF endswith(s, Fence \o <<"\n">>) THEN SubSeq(s, 1, Len(s) - 4) \o <<"\n">>
    ELSE s

\* "Strip triple backticks if present"
strip_backticks(text_output) ==
    IF startswith(text_output, Fence)
    THEN strip(re_sub_fence_close(re_sub_fence_open(re_sub_fence_json(text_output))))
    ELSE text_output

\* The upstream's answer to requests.post.
\*   outcome     "response", or "ConnectionError" when requests.post raises
\*   is_json     whether res.json() decodes the body
\*   payload     the decoded body of an error response
\*   candidates  the shape of a 200 body: "text" (candidates[0].content.parts[0].text
\*               is there), "default" (a key on the way is missing), "empty_list"
\*               (candidates or parts is an empty list)
\*   text        the text part
Upstream(outcome, status_code, is_json, payload, candidates, text) ==
    [outcome |-> outcome, status_code |-> status_code, is_json |-> is_json,
     payload |-> payload, candidates |-> candidates, text |-> text]

NoRes == Upstream("none", 0, FALSE, <<>>, "default", <<>>)

\* res.json().get("candidates", [{}])[0].get("content", {}).get("parts", [{}])[0]
\*    .get("text", "").strip()
first_text(r) == strip(IF r.candidates = "text" THEN r.text ELSE <<>>)

\* a handler that drops the cover letter of a result whose decision is not "Yes"
jsonify_validated(val) ==
    [Reply(200, "") EXCEPT !.parsed =
        [i \in 1..Len(val) |->
            IF /\ i > 2
               /\ val[i - 2] = "\"coverLetter\""
               /\ val[i - 1] = ":"
               /\ \A k \in 1..Len(val) : val[k] # "\"Yes\""
            THEN "\"\""
            ELSE val[i]]]

\* jsonify(parsed): the decoded value goes back out unchanged
jsonify_parsed(val) == [Reply(200, "") EXCEPT !.parsed = val]

\* the handler answering a parse failure without the text
analyze_after_post_no_raw(r) ==
    IF r.outcome = "ConnectionError" THEN InternalServerError
    ELSE IF r.status_code # 200
        THEN IF r.is_json
             THEN [Reply(r.status_code, "upstream") EXCEPT !.upstream = r.payload]
             ELSE InternalServerError
    ELSE IF ~r.is_json \/ r.candidates = "empty_list" THEN InternalServerError
    ELSE LET parsed == json_loads(strip_backticks(first_text(r))) IN
         IF ~parsed.ok
         THEN Reply(500, "Invalid JSON from Gemini")
         ELSE jsonify_parsed(parsed.val)

\* the handler from the return of requests.post on
analyze_after_post(r) ==
    IF r.outcome = "ConnectionError" THEN InternalServerError
    ELSE IF r.status_code # 200
        THEN IF r.is_json
             THEN [Reply(r.status_code, "upstream") EXCEPT !.upstream = r.payload]
             ELSE InternalServerError
    ELSE IF ~r.is_json \/ r.candidates = "empty_list" THEN InternalServerError
    ELSE LET text_output == strip_backticks(first_text(r))
             parsed == json_loads(text_output)
         IN
         IF ~parsed.ok
         THEN [Reply(500, "Invalid JSON from Gemini") EXCEPT !.raw = text_output]
         ELSE jsonify_parsed(parsed.val)

(* the upstream responses tried *)

AssessmentDoc(decision, score, coverLetter) ==
    <<"{", "\"decision\"", ":", decision, ",", "\"score\"", ":", score, ",",
      "\"coverLetter\"", ":", coverLetter, "}">>

AssessmentDocs ==
    {AssessmentDoc(d, s, c) :
        d \in {"\"Yes\"", "\"No\""}, s \in NumberLexemes, c \in {"\"\"", "\"Dear team\""}}

GarbageAlphabet == {"{", "}", "[", "]", "60", BT, "j", "\n"}

\* an assessment cut off before its end, and one with spaces between lexemes
OtherBodies ==
    {<<"{", "\"decision\"", ":", "\"Yes\"", ",">>,
     <<"{", " ", "\"score\"", ":", "\n", "59", " ", "}">>,
     <<"[", "59", ",", "null", "]">>}

Bodies == AssessmentDocs \cup OtherBodies \cup StringsUpTo(GarbageAlphabet, MaxGarbageLen)

Tags == {<<>>, <<"j", "s", "o", "n">>, <<"J", "S", "O", "N">>, <<"J", "s", "o", "n">>}

Opens == {<<>>} \cup {Fence \o t : t \in Tags}

Closes == {<<>>, Fence}

Pads == {<<>>, <<"\n">>, <<" ">>}

OuterPads == {<<>>, <<" ", "\n">>}

UpstreamTexts ==
    {o \o op \o p \o b \o p \o cl \o o :
        o \in OuterPads, op \in Opens, p \in Pads, b \in Bodies, cl \in Closes}

ErrorPayloads == {<<"{", "\"error\"", ":", "\"quota\"", "}">>}

UpstreamResponses ==
    {Upstream("response", 200, TRUE, <<>>, "text", t) : t \in UpstreamTexts}
    \cup {Upstream("response", 200, TRUE, <<>>, c, <<>>) : c \in {"default", "empty_list"}}
    \cup {Upstream("response", 200, FALSE, <<>>, "default", <<>>)}
    \cup {Upstream("response", st, TRUE, p, "default", <<>>) :
            st \in {429, 503}, p \in ErrorPayloads}
    \cup {Upstream("response", st, FALSE, <<>>, "default", <<>>) : st \in {429, 503}}
    \cup {Upstream("ConnectionError", 0, FALSE, <<>>, "default", <<>>)}

----------------------------------------------------------------------------
(* /extract/text *)

\* def ocr_pdf: one OCR result per page image, each followed by a newline
RECURSIVE ocr_pdf(_)
ocr_pdf(images) ==
    IF images = <<>> THEN <<>>
    ELSE Head(images) \o <<"\n">> \o ocr_pdf(Tail(images))

\* def ocr_image: the OCR result of the one image
ocr_image(images) == IF images = <<>> THEN <<>> ELSE Head(images)

\* the loop over pdf_reader.pages
RECURSIVE text_layer(_)
text_layer(pages) ==
    IF pages = <<>> THEN <<>>
    ELSE (IF Head(pages) # <<>> THEN Head(pages) \o <<"\n">> ELSE <<>>)
         \o text_layer(Tail(pages))

\* the chain with ".jpeg" left out of the image suffixes
suffix_branch_no_jpeg(filename) ==
    IF endswith(filename, <<".", "p", "d", "f">>) THEN "pdf"
    ELSE IF endswith(filename, <<".", "d", "o", "c", "x">>) THEN "docx"
    ELSE IF endswith(filename, <<".", "t", "x", "t">>) THEN "txt"
    ELSE IF \/ endswith(filename, <<".", "p", "n", "g">>)
            \/ endswith(filename, <<".", "j", "p", "g">>) THEN "image"
    ELSE "unsupported"

\* the if/elif chain on the lower-cased filename
suffix_branch(filename) ==
    IF endswith(filename, <<".", "p", "d", "f">>) THEN "pdf"
    ELSE IF endswith(filename, <<".", "d", "o", "c", "x">>) THEN "docx"
    ELSE IF endswith(filename, <<".", "t", "x", "t">>) THEN "txt"
    ELSE IF \/ endswith(filename, <<".", "p", "n", "g">>)
            \/ endswith(filename, <<".", "j", "p", "g">>)
            \/ endswith(filename, <<".", "j", "p", "e", "g">>) THEN "image"
    ELSE "unsupported"

\* except Exception as e: return jsonify({"error": str(e)}), 500
ExtractionFailed == Reply(500, "str(e)")

TextReply(text) == [Reply(200, "") EXCEPT !.text = strip(text)]

\* the PDF branch falling back on "not text" in the place of "not text.strip()"
pdf_branch_unstripped(up) ==
    IF up.raises = "PdfReader"
    THEN [invoked |-> {"PdfReader"}, response |-> ExtractionFailed]
    ELSE LET text == text_layer(up.pages) IN
         IF text = <<>>
         THEN [invoked |-> {"PdfReader", "ocr_pdf"},
               response |-> IF up.raises = "ocr" THEN ExtractionFailed
                            ELSE TextReply(ocr_pdf(up.ocr))]
         ELSE [invoked |-> {"PdfReader"}, response |-> TextReply(text)]

\* the PDF branch
pdf_branch(up) ==
    IF up.raises = "PdfReader"
    THEN [invoked |-> {"PdfReader"}, response |-> ExtractionFailed]
    ELSE LET text == text_layer(up.pages) IN
         IF strip(text) = <<>>
         THEN [invoked |-> {"PdfReader", "ocr_pdf"},
               response |-> IF up.raises = "ocr" THEN ExtractionFailed
                            ELSE TextReply(ocr_pdf(up.ocr))]
         ELSE [invoked |-> {"PdfReader"}, response |-> TextReply(text)]

\* The handler on an upload.
\*   has_file  whether the request has a "file" part
\*   filename  the file's name
\*   pages     the text layer PyPDF2 reads from each page
\*   ocr       what pytesseract reads from each page image (or from the image)
\*   value     the text mammoth extracts, or the bytes decoded as UTF-8
\*   raises    which library call raises: "none", "PdfReader", "ocr", "mammoth", "decode"
extract_text_handler(up) ==
    IF ~up.has_file
    THEN [invoked |-> {}, response |-> Reply(400, "No file uploaded")]
    ELSE LET filename == lower(up.filename)
             branch == suffix_branch(filename)
         IN
         CASE branch = "pdf" -> pdf_branch(up)
           [] branch = "docx" ->
                [invoked |-> {"mammoth"},
                 response |-> IF up.raises = "mammoth" THEN ExtractionFailed
                              ELSE TextReply(up.value)]
           [] branch = "txt" ->
                [invoked |-> {"decode"},
                 response |-> IF up.raises = "decode" THEN ExtractionFailed
                              ELSE TextReply(up.value)]
           [] branch = "image" ->
                [invoked |-> {"ocr_image"},
                 response |-> IF up.raises = "ocr" THEN ExtractionFailed
                              ELSE TextReply(ocr_image(up.ocr))]
           [] OTHER ->
                [invoked |-> {}, response |-> Reply(400, "Unsupported file type")]

(* the uploads tried *)

Upload(has_file, filename, pages, ocr, value, raises) ==
    [has_file |-> has_file, filename |-> filename, pages |-> pages, ocr |-> ocr,
     value |-> value, raises |-> raises]

NoUpload == Upload(FALSE, <<>>, <<>>, <<>>, <<>>, "none")

Stems == {<<>>, <<"c", "v">>, <<"c", "v", ".", "p", "d", "f">>, <<"j", "p", "g">>}

PdfExtensions == {<<".", "p", "d", "f">>, <<".", "P", "D", "F">>, <<".", "P", "d", "f">>}

Extensions ==
    PdfExtensions
    \cup {<<".", "d", "o", "c", "x">>, <<".", "D", "O", "C", "X">>, <<".", "d", "o", "c">>,
          <<".", "t", "x", "t">>, <<".", "T", "x", "T">>,
          <<".", "p", "n", "g">>, <<".", "P", "N", "G">>,
          <<".", "j", "p", "g">>, <<".", "J", "P", "G">>,
          <<".", "j", "p", "e", "g">>, <<".", "J", "p", "E", "g">>,
          <<".", "g", "i", "f">>, <<".", "p", "d", "f", "x">>, <<".", "p", "d">>,
          <<"p", "d", "f">>, <<"t", "x", "t">>, <<".", "p", "d", "f", ".">>, <<>>}

Filenames == {st \o e : st \in Stems, e \in Extensions}

PageTexts == StringsUpTo({"a", " "}, MaxPageLen)

OcrTexts == {<<>>, <<"b", " ">>}

PageSeqs == UNION {[1..n -> PageTexts] : n \in 0..MaxPages}

Values == {<<>>, <<" ", "a", "\n">>}

\* a PDF with text layers p, uploaded under a .pdf name: one page image,
\* and so one OCR result, per page
PdfUploads(p) ==
    {Upload(TRUE, <<"c", "v">> \o e, p, o, <<>>, r) :
        e \in PdfExtensions, o \in [1..Len(p) -> OcrTexts],
        r \in {"none", "PdfReader", "ocr"}}

\* any file under any name
Uploads ==
    {Upload(TRUE, f, p, <<o>>, v, r) :
            f \in Filenames, p \in {<<>>, <<<<"a">>>>}, o \in OcrTexts, v \in Values,
            r \in {"none", "mammoth", "decode", "ocr"}}
    \cup {NoUpload}

----------------------------------------------------------------------------
(* /text/to/docx *)

\* str.replace("\r\n", "\n")
RECURSIVE replace_crlf(_)
replace_crlf(s) ==
    IF s = <<>> THEN <<>>
    ELSE IF startswith(s, <<"\r", "\n">>)
        THEN <<"\n">> \o replace_crlf(SubSeq(s, 3, Len(s)))
    ELSE <<Head(s)>> \o replace_crlf(Tail(s))

\* str.split(sep), with cur the segment being read
RECURSIVE split_from(_, _, _)
split_from(s, sep, cur) ==
    IF s = <<>> THEN <<cur>>
    ELSE IF startswith(s, sep)
        THEN <<cur>> \o split_from(SubSeq(s, Len(sep) + 1, Len(s)), sep, <<>>)
    ELSE split_from(Tail(s), sep, cur \o <<Head(s)>>)

split(s, sep) == split_from(s, sep, <<>>)

\* [p.strip() for p in segments if p.strip()]
RECURSIVE stripped_nonempty(_)
stripped_nonempty(segments) ==
    IF segments = <<>> THEN <<>>
    ELSE (IF strip(Head(segments)) # <<>> THEN <<strip(Head(segments))>> ELSE <<>>)
         \o stripped_nonempty(Tail(segments))

\* the split without the normalisation of line endings
paragraphs_of_no_crlf(text) ==
    stripped_nonempty(split(text, <<"\n", "\n">>))

\* paragraphs = [p.strip() for p in text.replace("\r\n", "\n").split("\n\n") if p.strip()]
paragraphs_of(text) ==
    stripped_nonempty(split(replace_crlf(text), <<"\n", "\n">>))

\* The request's JSON body.
\*   kind  "none" (no body, or a falsy one such as {}), "no_text" (an object
\*         without "text"), "null_text" ("text": null), "text"
DocxBody(kind, text) == [kind |-> kind, text |-> text]

NoDocxData == DocxBody("none", <<>>)

text_to_docx_handler(d) ==
    IF d.kind \in {"none", "no_text"} THEN Reply(400, "No text provided")
    ELSE IF d.kind = "null_text" THEN InternalServerError
    ELSE [Reply(200, "") EXCEPT !.paragraphs = paragraphs_of(d.text)]

DocxTexts == StringsUpTo({"a", "b", "\n", "\r", " "}, MaxTextLen)

DocxBodies ==
    {DocxBody(k, <<>>) : k \in {"none", "no_text", "null_text"}}
    \cup {DocxBody("text", t) : t \in DocxTexts}

----------------------------------------------------------------------------
(* The server *)

Init ==
    /\ pc = "idle"
    /\ route = "none"
    /\ data = NoData
    /\ api_calls = 0
    /\ res = NoRes
    /\ upload = NoUpload
    /\ invoked = {}
    /\ docx_data = NoDocxData
    /\ response = NoResponse

\* analyze() up to its call of requests.post
analyze_request ==
    /\ pc = "idle"
    /\ \E d \in AnalyzeData :
        /\ data' = d
        /\ IF ~all_fields(d)
           THEN /\ response' = Reply(400, "Missing fields")
                /\ api_calls' = api_calls
                /\ pc' = "done"
           ELSE /\ response' = response
                /\ api_calls' = api_calls + 1
                /\ pc' = "upstream"
    /\ route' = "/analyze"
    /\ UNCHANGED <<res, upload, invoked, docx_data>>

\* requests.post returns (or raises) and analyze() runs to its end
analyze_reply ==
    /\ pc = "upstream"
    /\ \E r \in UpstreamResponses :
        /\ res' = r
        /\ response' = analyze_after_post(r)
    /\ pc' = "done"
    /\ UNCHANGED <<route, data, api_calls, upload, invoked, docx_data>>

\* the handler's effect on the upload up
serve_upload(up) ==
    /\ upload' = up
    /\ invoked' = extract_text_handler(up).invoked
    /\ response' = extract_text_handler(up).response

extract_text ==
    /\ pc = "idle"
    /\ \/ \E up \in Uploads : serve_upload(up)
       \/ \E p \in PageSeqs : \E up \in PdfUploads(p) : serve_upload(up)
    /\ route' = "/extract/text"
    /\ pc' = "done"
    /\ UNCHANGED <<data, api_calls, res, docx_data>>

text_to_docx ==
    /\ pc = "idle"
    /\ \E d \in DocxBodies :
        /\ docx_data' = d
        /\ response' = text_to_docx_handler(d)
    /\ route' = "/text/to/docx"
    /\ pc' = "done"
    /\ UNCHANGED <<data, api_calls, res, upload, invoked>>

\* the response is sent; nothing of the request is kept
respond ==
    /\ pc = "done"
    /\ pc' = "idle"
    /\ route' = "none"
    /\ data' = NoData
    /\ api_calls' = 0
    /\ res' = NoRes
    /\ upload' = NoUpload
    /\ invoked' = {}
    /\ docx_data' = NoDocxData
    /\ response' = NoResponse

Next ==
    \/ analyze_request
    \/ analyze_reply
    \/ extract_text
    \/ text_to_docx
    \/ respond

Spec == Init /\ [][Next]_vars

----------------------------------------------------------------------------
(* Definitions the properties below are stated with *)

AnalyzeDone == route = "/analyze" /\ pc = "done"
ExtractDone == route = "/extract/text" /\ pc = "done"
DocxDone == route = "/text/to/docx" /\ pc = "done"

\* a request field that is absent or empty
FieldMissing(v) == v.kind \in {"absent", "null"} \/ v.val \in {<<>>, <<"0">>}

SomeFieldMissing ==
    \/ FieldMissing(data.jobTitle)
    \/ FieldMissing(data.jobDescription)
    \/ FieldMissing(data.extractedText)

\* the upstream answered 200 with a body from which a text is read
TextRead ==
    /\ res.outcome = "response"
    /\ res.status_code = 200
    /\ res.is_json
    /\ res.candidates # "empty_list"

\* t occurs in s as a contiguous part
IsInfix(t, s) ==
    \E i \in 0..(Len(s) - Len(t)) : SubSeq(s, i + 1, i + Len(t)) = t

\* a JSON document between fences: optional outer whitespace, the opening
\* fence with an optional tag, the document, the closing fence
Wrapped(o, tag, p, doc) == o \o Fence \o tag \o p \o doc \o p \o Fence \o o

JsonBodies == {b \in Bodies : json_loads(b).ok}

\* every fenced form of every JSON document of the model, with the document
FencedDocs ==
    {[text |-> Wrapped(o, tag, p, doc), doc |-> doc] :
        o \in OuterPads, tag \in Tags, p \in Pads, doc \in JsonBodies}

\* the k-th smallest member of a set of numbers
Kth(S, k) == CHOOSE i \in S : Cardinality({j \in S : j < i}) = k - 1

\* the members of s at the positions in S, in order
Pick(s, S) == [k \in 1..Cardinality(S) |-> s[Kth(S, k)]]

\* CRLF normalised to LF: every "\r" that a "\n" follows is dropped
RefNormalized(t) ==
    Pick(t, {i \in 1..Len(t) : ~(t[i] = "\r" /\ i < Len(t) /\ t[i + 1] = "\n")})

\* The paragraphs of a normalised text n, read off the positions of its
\* non-blank characters: two neighbouring ones lie in different paragraphs
\* exactly when a blank line ("\n\n") separates them.
RefContent(n) == {i \in 1..Len(n) : n[i] \notin Whitespace}

RefBlankBetween(n, i, j) ==
    \E k \in (i + 1)..(j - 2) : n[k] = "\n" /\ n[k + 1] = "\n"

RefStarts(n) ==
    {i \in RefContent(n) :
        LET before == {q \in RefContent(n) : q < i} IN
        before = {} \/ RefBlankBetween(n, CHOOSE m \in before : \A q \in before : q <= m, i)}

RefEnd(n, st) ==
    LET mine == {e \in RefContent(n) :
                    e >= st /\ \A x \in RefStarts(n) : ~(st < x /\ x <= e)}
    IN CHOOSE m \in mine : \A e \in mine : e <= m

RefParagraphs(n) ==
    [k \in 1..Cardinality(RefStarts(n)) |->
        SubSeq(n, Kth(RefStarts(n), k), RefEnd(n, Kth(RefStarts(n), k)))]

\* the non-empty trimmed lines of a text
RefLines(n) == stripped_nonempty(split(n, <<"\n">>))

\* the text layers of the pages, one after the other
RECURSIVE RefConcat(_)
RefConcat(pages) ==
    IF pages = <<>> THEN <<>> ELSE Head(pages) \o RefConcat(Tail(pages))

\* the value of a key of a flat JSON object, as its lexeme
HasKey(doc, key) == \E i \in 1..(Len(doc) - 2) : doc[i] = key /\ doc[i + 1] = ":"
ValueOf(doc, key) ==
    doc[(CHOOSE i \in 1..(Len(doc) - 2) : doc[i] = key /\ doc[i + 1] = ":") + 2]

AtLeast60(lexeme) == lexeme \in NumberLexemes /\ lexeme # "59"

\* coverLetter non-empty implies decision = "Yes" and score >= 60
CoverLetterInvariant(doc) ==
    (HasKey(doc, "\"coverLetter\"") /\ ValueOf(doc, "\"coverLetter\"") # "\"\"")
        => /\ HasKey(doc, "\"decision\"") /\ ValueOf(doc, "\"decision\"") = "\"Yes\""
           /\ HasKey(doc, "\"score\"") /\ AtLeast60(ValueOf(doc, "\"score\""))

\* the JSON lexemes of a text: what is left without whitespace, backticks
\* and the letters of the fence's tag
JsonLexemesOf(t) ==
    Pick(t, {i \in 1..Len(t) :
                t[i] \notin Whitespace \cup {BT, "j", "s", "o", "n", "J", "S", "O", "N"}})

----------------------------------------------------------------------------
(* Properties *)

C2_DispatchBySuffix ==
    (ExtractDone /\ upload.has_file) =>
        LET f == lower(upload.filename) IN
        IF endswith(f, <<".", "p", "d", "f">>)
            THEN "PdfReader" \in invoked /\ invoked \subseteq {"PdfReader", "ocr_pdf"}
        ELSE IF endswith(f, <<".", "d", "o", "c", "x">>) THEN invoked = {"mammoth"}
        ELSE IF endswith(f, <<".", "t", "x", "t">>) THEN invoked = {"decode"}
        ELSE IF \E e \in {<<".", "p", "n", "g">>, <<".", "j", "p", "g">>,
                          <<".", "j", "p", "e", "g">>} : endswith(f, e)
            THEN invoked = {"ocr_image"}
        ELSE invoked = {} /\ response = Reply(400, "Unsupported file type")

C2_Witness ==
    /\ ExtractDone
    /\ upload.filename = <<"c", "v", ".", "p", "d", "f", ".", "J", "p", "E", "g">>
    /\ invoked = {"ocr_image"}
    /\ response.status = 200

\* C3: in the PDF branch, once the text layer is read, ocr_pdf is called if
\* and only if the non-empty page texts, put together, are empty after
\* trimming; when the text layer has any non-whitespace text, that text
\* (trimmed) is the answer and OCR is not called.
C3_OcrFallbackIffNoText ==
    (ExtractDone /\ "PdfReader" \in invoked /\ upload.raises # "PdfReader") =>
        LET blank == strip(RefConcat(upload.pages)) = <<>> IN
        /\ ("ocr_pdf" \in invoked) <=> blank
        /\ ~blank => /\ response.status = 200
                     /\ response.text = strip(text_layer(upload.pages))
                     /\ \A k \in 1..Len(upload.pages) :
                            IsInfix(strip(upload.pages[k]), response.text)

C3_Witness ==
    /\ ExtractDone
    /\ upload.pages = <<<<" ">>, <<>>>>
    /\ upload.raises = "none"
    /\ invoked = {"PdfReader", "ocr_pdf"}
    /\ response.status = 200
    /\ response.text # <<>>

\* C4: /text/to/docx answers 400 (no text) whenever the request's text is
\* absent or is the empty string, and then builds no document.
C4_Claim ==
    (DocxDone /\ (docx_data.kind \in {"none", "no_text"}
                    \/ (docx_data.kind = "text" /\ docx_data.text = <<>>)))
        => response = Reply(400, "No text provided")

\* C5: a 200 upstream text that is a JSON document between fences (the
\* opening fence with no tag or with "json" in any case) gets the very
\* answer the same document gets when sent without the fences.
C5_FencedSameAsUnwrapped ==
    (AnalyzeDone /\ TextRead /\ res.candidates = "text") =>
        \A w \in FencedDocs :
            res.text = w.text
                => /\ response = analyze_after_post([res EXCEPT !.text = w.doc])
                   /\ response.status = 200

C5_Witness ==
    /\ AnalyzeDone
    /\ res.text = Wrapped(<<>>, <<"J", "S", "O", "N">>, <<"\n">>,
                          AssessmentDoc("\"Yes\"", "60", "\"Dear team\""))
    /\ response.status = 200
    /\ response.parsed = AssessmentDoc("\"Yes\"", "60", "\"Dear team\"")

\* C6: a request that passes the field check calls the generative API exactly
\* once; if the call returns a status other than 200 the answer carries that
\* status and the upstream's body, and no further call is made.
C6_Claim ==
    (route = "/analyze" /\ ~SomeFieldMissing) =>
        /\ api_calls = 1
        /\ (pc = "done" /\ res.outcome = "response" /\ res.status_code # 200)
            => /\ response.status = res.status_code
               /\ response.upstream = res.payload

C9_Claim ==
    (DocxDone /\ docx_data.kind = "text"
        /\ ~IsInfix(<<"\n", "\n">>, RefNormalized(docx_data.text)))
        => response.paragraphs = RefLines(RefNormalized(docx_data.text))

\* C10 as claimed: every result /analyze returns with success has
\* coverLetter non-empty only with decision = "Yes" and score >= 60.
C10_Claim ==
    (AnalyzeDone /\ response.status = 200) => CoverLetterInvariant(response.parsed)

\* C10 as amended: a result /analyze returns with success is the
\* upstream's JSON value unchanged, so the condition on coverLetter holds of
\* the result exactly when it holds of what the upstream sent.
C10_PassThrough ==
    (AnalyzeDone /\ response.status = 200) =>
        /\ response.parsed = JsonLexemesOf(res.text)
        /\ CoverLetterInvariant(response.parsed)
            <=> CoverLetterInvariant(JsonLexemesOf(res.text))

C10_Witness ==
    /\ AnalyzeDone
    /\ response.status = 200
    /\ response.parsed = AssessmentDoc("\"No\"", "59", "\"Dear team\"")

====
